---- MODULE Spec2Model ----
(***************************************************************************)
(* Model of src/app.py: the Pulmonary Function Test interpreter.          *)
(*                                                                         *)
(* The three functions of the file are pure; each is an operator here,     *)
(* computed as the code computes it, and each has a specification whose    *)
(* Init draws the arguments and whose action applies the function:         *)
(*   Spec     interpret_pft   (the "Interpret Results" button, line 126)   *)
(*   SpecLln  calculate_lln   (a direct call, any parameter)               *)
(*   SpecPef  calculate_pef   (the "Show PEF" checkbox, line 163)          *)
(*                                                                         *)
(* Numbers.  The code computes in binary floating point on decimal inputs  *)
(* (every widget has step 0.1 or 1).  The model computes the same          *)
(* quantities exactly, as scaled integers:                                 *)
(*   age                          years                                    *)
(*   height_inches                tenths of an inch                        *)
(*   height (cm)                  hundredths of a centimetre               *)
(*   fev1, fvc, fev1_fvc (UI)     tenths of a percent                      *)
(*   dlco_sb, dl_va, va_sb, ...   tenths of their unit                     *)
(*   parameter                    1/10000                                  *)
(*   the ratio and the LLN        1/1000000                                *)
(*   the PEF                      1/10000 L/min                            *)
(*   a value formatted "%.2f"     hundredths                               *)
(* An absent argument (None) is the record None; a given one is Some(v).   *)
(***************************************************************************)
EXTENDS Integers, Sequences, FiniteSets

VARIABLES
    age,            \* st.sidebar.number_input("Age (years)")
    height_inches,  \* st.sidebar.number_input("Height (inches)")
    gender,         \* st.sidebar.selectbox("Gender")
    ethnicity,      \* st.sidebar.selectbox("Ethnicity")
    fev1,           \* FEV1 (% predicted)
    fvc,            \* FVC (% predicted)
    fev1_fvc,       \* FEV1/FVC ratio (%), as entered
    dlco_sb, dl_va, va_sb, ivc_sb, bht,   \* the optional measurements
    parameter,      \* first argument of a direct calculate_lln call
    pc,             \* "ready" before the call, "done" after it
    results,        \* what interpret_pft returned
    lln,            \* what calculate_lln returned
    pef             \* what calculate_pef returned

vars == <<age, height_inches, gender, ethnicity, fev1, fvc, fev1_fvc,
          dlco_sb, dl_va, va_sb, ivc_sb, bht, parameter, pc, results, lln, pef>>

inputs == <<age, height_inches, gender, ethnicity, fev1, fvc, fev1_fvc,
            dlco_sb, dl_va, va_sb, ivc_sb, bht, parameter>>

----------------------------------------------------------------------------
(* Values *)

None == [present |-> FALSE, val |-> 0]
Some(v) == [present |-> TRUE, val |-> v]

\* parameter = 1.0, in 1/10000
One == 10000

\* Bounds of the input grids.
MaxAgeK == 2
MaxOptVal == 1

\* The largest age the UI accepts.
AgeMax == 120

Ages == {60 * k : k \in 0..MaxAgeK}
Genders == {"Male", "Female", "Other"}
Ethnicities == {"Caucasian", "African American", "Asian", "Other"}
\* tenths of an inch: 0, 9.5, 18.9, 20.0, 20.1 and 66.9 in
\* (0, 24.13, 48.01, 50.80, 51.05 and 169.93 cm)
HeightsInches == {0, 95, 189, 200, 201, 669}
\* tenths of a percent, on both sides of the thresholds 50, 70 and 80
Fev1s == {0, 499, 500, 699, 700, 1000}
Fvcs == {799, 800, 1000}
Fev1Fvcs == {0, 880, 1000}
DlcoVals == {0, 799, 800}
OptVals == 0..MaxOptVal
\* 1/10000: -1.0, 0, 1.0, 2.5
Parameters == {0 - One, 0, One, 25000}

----------------------------------------------------------------------------
(* Conversions *)

\* height_cm = round(height_inches * 2.54, 2): tenths of an inch to
\* hundredths of a centimetre, rounded to the nearest (i * 25.4 is never
\* half-way between two integers, 254 * i being even).
height_cm(i) == (i * 254 + 5) \div 10

\* fev1_fvc / 100: tenths of a percent to millionths.
Ratio(pct) == pct * 1000

\* f"{x:.2f}" of a non-negative x given in millionths: hundredths, rounded
\* to the nearest.
Fmt2(x) == (x + 5000) \div 10000

\* an optional measurement, in tenths, in millionths
Tenths(v) == v * 100000

Line(m) == [msg |-> m, args |-> <<>>]
FLine(m, x) == [msg |-> m, args |-> <<Fmt2(x)>>]

Max(a, b) == IF a >= b THEN a ELSE b

----------------------------------------------------------------------------
(* calculate_lln *)

\* hundredths
adjustment_factor(e) ==
    IF e = "Caucasian" THEN 100
    ELSE IF e = "African American" THEN 88
    ELSE IF e = "Asian" THEN 94
    ELSE 100

\* Variant: the height taken in metres.
lln_value_metres(p, a, h, e) == adjustment_factor(e) * (p - (a * 200) + ((h * 5) \div 100))

\* adjustment_factor * (parameter - (age * 0.02) + (height * 0.05)), millionths
lln_value(p, a, h, e) == adjustment_factor(e) * (p - (a * 200) + (h * 5))

\* Variant: the result not clamped at 0.
calculate_lln_unclamped(p, a, g, h, e) == lln_value(p, a, h, e)

calculate_lln(p, a, g, h, e) == Max(0, lln_value(p, a, h, e))

----------------------------------------------------------------------------
(* calculate_pef *)

\* Variant: the Female equation missing.
calculate_pef_male_only(a, g, h) ==
    IF g = "Male" THEN Some(1870000 + (548 * h) - (340 * a))
    ELSE None

calculate_pef(a, g, h) ==
    IF g = "Male" THEN Some(1870000 + (548 * h) - (340 * a))
    ELSE IF g = "Female" THEN Some(1530000 + (450 * h) - (260 * a))
    ELSE None

----------------------------------------------------------------------------
(* interpret_pft *)

ObstructiveMsg == "Obstructive pattern detected (LLN-adjusted cutoff: {fev1_fvc_lln:.2f})."
MildMsg == "Severity: Mild obstruction."
MildNext == "Next steps: Consider a short-acting beta-agonist (e.g., albuterol). Reassess if symptoms persist."
ModerateMsg == "Severity: Moderate obstruction."
ModerateNext == "Next steps: Consider adding long-acting bronchodilators (e.g., LABA or LAMA). Evaluate for inhaled corticosteroids if needed."
SevereMsg == "Severity: Severe obstruction."
SevereNext == "Next steps: Refer to a pulmonologist. Consider advanced therapies like combination inhalers or oxygen therapy if indicated."
RestrictiveMsg == "Restrictive pattern detected."
RestrictiveNext == "Next steps: Evaluate for interstitial lung disease, obesity, or neuromuscular disorders. Consider high-resolution CT or referral to a specialist."
MixedMsg == "Mixed obstructive and restrictive pattern detected."
MixedNext == "Next steps: Comprehensive workup needed. Evaluate for concurrent obstructive and restrictive conditions. Referral to pulmonology recommended."
DlcoReducedMsg == "Reduced DLCO_SB: Suggests impaired gas exchange."
DlcoReducedNext == "Next steps: Investigate causes such as interstitial lung disease, pulmonary hypertension, or emphysema. Consider echocardiography or CT imaging."
DlcoNormalMsg == "DLCO_SB is within normal limits."
DlVaMsg == "DL/VA ratio: {dl_va:.2f}. Interpretation depends on clinical context (e.g., lung volume and gas exchange)."
VaSbMsg == "VA_SB: {va_sb:.2f} L. This represents the alveolar volume."
IvcSbMsg == "IVC_SB: {ivc_sb:.2f} L. Represents inspiratory capacity during single breath testing."
BhtMsg == "Breath-holding time (BHT): {bht:.2f} seconds. Ensure proper technique during test."
NormalMsg == "Normal PFT values."
NormalNext == "Next steps: No action needed. Encourage routine follow-up if indicated."

\* Variant: fev1 = 70 graded Moderate.
Severity_strict(f1) ==
    IF f1 > 700 THEN <<Line(MildMsg), Line(MildNext)>>
    ELSE IF 500 <= f1 /\ f1 <= 700 THEN <<Line(ModerateMsg), Line(ModerateNext)>>
    ELSE IF f1 < 500 THEN <<Line(SevereMsg), Line(SevereNext)>>
    ELSE <<>>

\* lines 40-48: the severity band, graded on fev1 (tenths of a percent)
Severity(f1) ==
    IF f1 >= 700 THEN <<Line(MildMsg), Line(MildNext)>>
    ELSE IF 500 <= f1 /\ f1 < 700 THEN <<Line(ModerateMsg), Line(ModerateNext)>>
    ELSE IF f1 < 500 THEN <<Line(SevereMsg), Line(SevereNext)>>
    ELSE <<>>

\* lines 38-48
Obstructive(f1, ratio, cutoff) ==
    IF ratio < cutoff
    THEN <<FLine(ObstructiveMsg, cutoff)>> \o Severity(f1)
    ELSE <<>>

\* Variant: the restrictive rule not looking at the ratio.
Restrictive_fvc_only(fv, ratio, cutoff) ==
    IF fv < 800
    THEN <<Line(RestrictiveMsg), Line(RestrictiveNext)>>
    ELSE <<>>

\* lines 51-53
Restrictive(fv, ratio, cutoff) ==
    IF fv < 800 /\ ratio >= cutoff
    THEN <<Line(RestrictiveMsg), Line(RestrictiveNext)>>
    ELSE <<>>

\* Variant: the mixed rule not looking at the ratio.
Mixed_fvc_only(fv, ratio, cutoff) ==
    IF fv < 800
    THEN <<Line(MixedMsg), Line(MixedNext)>>
    ELSE <<>>

\* lines 56-58
Mixed(fv, ratio, cutoff) ==
    IF ratio < cutoff /\ fv < 800
    THEN <<Line(MixedMsg), Line(MixedNext)>>
    ELSE <<>>

\* Variant: "if dlco_sb:" in place of "if dlco_sb is not None:".
Dlco_truthy(d) ==
    IF d.present /\ d.val # 0
    THEN IF d.val < 800
         THEN <<Line(DlcoReducedMsg), Line(DlcoReducedNext)>>
         ELSE <<Line(DlcoNormalMsg)>>
    ELSE <<>>

\* lines 61-66
Dlco(d) ==
    IF d.present
    THEN IF d.val < 800
         THEN <<Line(DlcoReducedMsg), Line(DlcoReducedNext)>>
         ELSE <<Line(DlcoNormalMsg)>>
    ELSE <<>>

\* lines 68-78: an informational line for an optional measurement
Info(m, o) == IF o.present THEN <<FLine(m, Tenths(o.val))>> ELSE <<>>

\* Variant: the fallback appended to an output of at most one line.
Fallback_short(interpretation) ==
    IF Len(interpretation) <= 1
    THEN interpretation \o <<Line(NormalMsg), Line(NormalNext)>>
    ELSE interpretation

\* lines 80-82
Fallback(interpretation) ==
    IF Len(interpretation) = 0
    THEN <<Line(NormalMsg), Line(NormalNext)>>
    ELSE interpretation

\* Variant: the DLCO_SB rule evaluated after the DL/VA rule.
interpret_pft_reordered(f1, fv, ratio, a, g, h, e, d, dv, va, iv, b) ==
    LET fev1_fvc_lln == calculate_lln(One, a, g, h, e)
    IN  Fallback(Obstructive(f1, ratio, fev1_fvc_lln)
                 \o Restrictive(fv, ratio, fev1_fvc_lln)
                 \o Mixed(fv, ratio, fev1_fvc_lln)
                 \o Info(DlVaMsg, dv)
                 \o Dlco(d)
                 \o Info(VaSbMsg, va)
                 \o Info(IvcSbMsg, iv)
                 \o Info(BhtMsg, b))

interpret_pft(f1, fv, ratio, a, g, h, e, d, dv, va, iv, b) ==
    LET fev1_fvc_lln == calculate_lln(One, a, g, h, e)
    IN  Fallback(Obstructive(f1, ratio, fev1_fvc_lln)
                 \o Restrictive(fv, ratio, fev1_fvc_lln)
                 \o Mixed(fv, ratio, fev1_fvc_lln)
                 \o Dlco(d)
                 \o Info(DlVaMsg, dv)
                 \o Info(VaSbMsg, va)
                 \o Info(IvcSbMsg, iv)
                 \o Info(BhtMsg, b))

----------------------------------------------------------------------------
(* Specifications *)

Opt(S) == {None} \cup {Some(v) : v \in S}

NotCalled ==
    /\ pc = "ready"
    /\ results = <<>>
    /\ lln = None
    /\ pef = None

\* The arguments the page passes to interpret_pft (lines 91-122): every
\* profile and spirometry value of the grids; the optional measurements are
\* all absent (checkbox off) or all given (checkbox on), and number inputs
\* start at 0.
InitPage ==
    /\ age \in Ages
    /\ height_inches \in HeightsInches
    /\ gender \in Genders
    /\ ethnicity \in Ethnicities
    /\ fev1 \in Fev1s
    /\ fvc \in Fvcs
    /\ fev1_fvc \in Fev1Fvcs
    /\ \/ /\ dlco_sb = None
          /\ dl_va = None /\ va_sb = None /\ ivc_sb = None /\ bht = None
       \/ /\ dlco_sb \in {Some(v) : v \in DlcoVals}
          /\ dl_va = Some(0) /\ va_sb = Some(0) /\ ivc_sb = Some(0) /\ bht = Some(0)
    /\ parameter = One
    /\ NotCalled

\* Direct calls of interpret_pft, each optional argument given or absent on
\* its own, on profiles on both sides of the cutoff.
InitOptional ==
    /\ age = AgeMax
    /\ height_inches \in {189, 201}
    /\ gender = "Other"
    /\ ethnicity \in {"Caucasian", "African American"}
    /\ fev1 \in {699, 700}
    /\ fvc \in {799, 800}
    /\ fev1_fvc = 1000
    /\ dlco_sb \in Opt(DlcoVals)
    /\ dl_va \in Opt(OptVals)
    /\ va_sb \in Opt(OptVals)
    /\ ivc_sb \in Opt(OptVals)
    /\ bht \in Opt(OptVals)
    /\ parameter = One
    /\ NotCalled

Init == InitPage \/ InitOptional

\* line 126
Interpret ==
    /\ pc = "ready"
    /\ results' = interpret_pft(fev1, fvc, Ratio(fev1_fvc), age, gender,
                                height_cm(height_inches), ethnicity,
                                dlco_sb, dl_va, va_sb, ivc_sb, bht)
    /\ pc' = "done"
    /\ UNCHANGED <<inputs, lln, pef>>

Next == Interpret

Spec == Init /\ [][Next]_vars

\* Direct calls of calculate_lln.
InitLln ==
    /\ parameter \in Parameters
    /\ age \in Ages
    /\ height_inches \in HeightsInches
    /\ gender \in Genders
    /\ ethnicity \in Ethnicities
    /\ fev1 = 0 /\ fvc = 0 /\ fev1_fvc = 0
    /\ dlco_sb = None
    /\ dl_va = None /\ va_sb = None /\ ivc_sb = None /\ bht = None
    /\ NotCalled

CallLln ==
    /\ pc = "ready"
    /\ lln' = Some(calculate_lln(parameter, age, gender,
                                 height_cm(height_inches), ethnicity))
    /\ pc' = "done"
    /\ UNCHANGED <<inputs, results, pef>>

NextLln == CallLln

SpecLln == InitLln /\ [][NextLln]_vars

\* lines 162-163
InitPef ==
    /\ age \in Ages
    /\ height_inches \in HeightsInches
    /\ gender \in Genders
    /\ ethnicity = "Caucasian"
    /\ fev1 = 0 /\ fvc = 0 /\ fev1_fvc = 0
    /\ dlco_sb = None
    /\ dl_va = None /\ va_sb = None /\ ivc_sb = None /\ bht = None
    /\ parameter = One
    /\ NotCalled

CallPef ==
    /\ pc = "ready"
    /\ pef' = calculate_pef(age, gender, height_cm(height_inches))
    /\ pc' = "done"
    /\ UNCHANGED <<inputs, results, lln>>

NextPef == CallPef

SpecPef == InitPef /\ [][NextPef]_vars

----------------------------------------------------------------------------
(* What the claims speak of *)

Done == pc = "done"

Has(m) == \E i \in 1..Len(results) : results[i].msg = m
Count(M) == Cardinality({i \in 1..Len(results) : results[i].msg \in M})
\* every line whose message is in A stands before every line whose message is in B
Before(A, B) ==
    \A i, j \in 1..Len(results) :
        (results[i].msg \in A /\ results[j].msg \in B) => i < j
\* the line m is directly followed by the line n
Followed(m, n) ==
    \A i \in 1..Len(results) :
        results[i].msg = m => (i < Len(results) /\ results[i + 1].msg = n)

Height == height_cm(height_inches)
Cutoff == calculate_lln(One, age, gender, Height, ethnicity)
BelowCutoff == Ratio(fev1_fvc) < Cutoff
NoOptional ==
    /\ ~dlco_sb.present /\ ~dl_va.present /\ ~va_sb.present
    /\ ~ivc_sb.present /\ ~bht.present
NormalOutput == <<Line(NormalMsg), Line(NormalNext)>>
SeverityMsgs == {MildMsg, ModerateMsg, SevereMsg}
ObstructiveMsgs ==
    {ObstructiveMsg, MildMsg, MildNext, ModerateMsg, ModerateNext, SevereMsg, SevereNext}

\* C1: with fev1 = 100, fvc = 100, fev1_fvc = 1.0 and no optional
\* measurement, every profile of age 0..120 gets exactly the two fallback
\* lines.
C1_NormalAtFullValues ==
    (/\ Done
     /\ age \in 0..AgeMax
     /\ fev1 = 1000 /\ fvc = 1000 /\ fev1_fvc = 1000
     /\ NoOptional)
    => results = NormalOutput

\* C2: the output contains "Normal PFT values." exactly when no pattern rule
\* fired and all five optional measurements are absent; then it is exactly
\* the two fallback lines, and otherwise it contains neither of them.
C2_FallbackIffNothingFired ==
    Done =>
        LET nothing == /\ ~BelowCutoff
                       /\ ~(fvc < 800 /\ ~BelowCutoff)
                       /\ ~(BelowCutoff /\ fvc < 800)
                       /\ NoOptional
        IN  /\ Has(NormalMsg) <=> nothing
            /\ nothing => results = NormalOutput
            /\ ~nothing => (~Has(NormalMsg) /\ ~Has(NormalNext))

C2_Witness ==
    /\ Done /\ ~BelowCutoff /\ fvc >= 800 /\ NoOptional
    /\ results = NormalOutput

\* C3: below the cutoff (fev1 >= 0) the output has exactly one severity
\* line, Mild iff fev1 >= 70, Moderate iff 50 <= fev1 < 70, Severe iff
\* fev1 < 50; at or above the cutoff it has no severity line.
C3_OneSeverityBand ==
    Done =>
        IF BelowCutoff
        THEN fev1 >= 0 =>
                /\ Count(SeverityMsgs) = 1
                /\ Has(MildMsg) <=> fev1 >= 700
                /\ Has(ModerateMsg) <=> (500 <= fev1 /\ fev1 < 700)
                /\ Has(SevereMsg) <=> fev1 < 500
        ELSE Count(SeverityMsgs) = 0

C3_Witness ==
    /\ Done /\ BelowCutoff /\ fev1 = 700
    /\ Has(MildMsg) /\ ~Has(ModerateMsg)

\* C4: below the cutoff with fvc < 80 the output has the obstructive line and
\* the mixed line, the obstructive line and its severity and recommendation
\* lines before the mixed line; the mixed line never appears without the
\* obstructive line.
C4_MixedWithObstructive ==
    Done =>
        /\ (BelowCutoff /\ fvc < 800) =>
              /\ Has(ObstructiveMsg) /\ Has(MixedMsg)
              /\ Before(ObstructiveMsgs, {MixedMsg})
        /\ Has(MixedMsg) => Has(ObstructiveMsg)

C4_Witness ==
    /\ Done /\ BelowCutoff /\ fvc = 799
    /\ Has(ObstructiveMsg) /\ Has(MixedMsg)

\* C5: the output has the restrictive line iff fvc < 80 and the ratio is at
\* or above the cutoff, and never has the restrictive line together with the
\* mixed line or with the obstructive line.
C5_RestrictiveExclusive ==
    Done =>
        /\ Has(RestrictiveMsg) <=> (fvc < 800 /\ Ratio(fev1_fvc) >= Cutoff)
        /\ ~(Has(RestrictiveMsg) /\ Has(MixedMsg))
        /\ ~(Has(RestrictiveMsg) /\ Has(ObstructiveMsg))

C5_Witness ==
    /\ Done /\ fvc = 799 /\ Ratio(fev1_fvc) = Cutoff
    /\ Has(RestrictiveMsg)

\* C6: without dlco_sb the output has neither DLCO_SB line; with it (0
\* included) it has exactly one of them: the reduced line, directly followed
\* by its recommendation, iff dlco_sb < 80, the normal line iff
\* dlco_sb >= 80, whatever the spirometry pattern.
C6_DlcoRule ==
    Done =>
        IF dlco_sb.present
        THEN /\ Count({DlcoReducedMsg, DlcoNormalMsg}) = 1
             /\ Has(DlcoReducedMsg) <=> dlco_sb.val < 800
             /\ Has(DlcoNormalMsg) <=> dlco_sb.val >= 800
             /\ Followed(DlcoReducedMsg, DlcoReducedNext)
             /\ Has(DlcoReducedNext) => Has(DlcoReducedMsg)
        ELSE Count({DlcoReducedMsg, DlcoReducedNext, DlcoNormalMsg}) = 0

C6_Witness ==
    /\ Done /\ dlco_sb = Some(0) /\ BelowCutoff
    /\ Has(DlcoReducedMsg) /\ Has(DlcoReducedNext)

\* the place of a line in the fixed rule order
Rank(m) ==
    CASE m = ObstructiveMsg -> 1
      [] m \in SeverityMsgs -> 2
      [] m \in {MildNext, ModerateNext, SevereNext} -> 3
      [] m = RestrictiveMsg -> 4
      [] m = RestrictiveNext -> 5
      [] m = MixedMsg -> 6
      [] m = MixedNext -> 7
      [] m \in {DlcoReducedMsg, DlcoNormalMsg} -> 8
      [] m = DlcoReducedNext -> 9
      [] m = DlVaMsg -> 10
      [] m = VaSbMsg -> 11
      [] m = IvcSbMsg -> 12
      [] m = BhtMsg -> 13
      [] m = NormalMsg -> 14
      [] m = NormalNext -> 15

\* C7: the lines of an output stand in the rule order obstructive (pattern,
\* severity, recommendation), restrictive, mixed, DLCO_SB, DL/VA, VA_SB,
\* IVC_SB, BHT, each at most once, and each of the DL/VA, VA_SB, IVC_SB and
\* BHT lines is there iff its input is given.
C7_RuleOrder ==
    Done =>
        /\ \A i, j \in 1..Len(results) :
              i < j => Rank(results[i].msg) < Rank(results[j].msg)
        /\ Has(DlVaMsg) <=> dl_va.present
        /\ Has(VaSbMsg) <=> va_sb.present
        /\ Has(IvcSbMsg) <=> ivc_sb.present
        /\ Has(BhtMsg) <=> bht.present

C7_Witness ==
    /\ Done /\ BelowCutoff /\ fvc < 800
    /\ dlco_sb.present /\ dlco_sb.val < 800
    /\ dl_va.present /\ ~va_sb.present /\ ivc_sb.present /\ bht.present
    /\ Len(results) = 10

\* C8: calculate_pef returns None iff gender is neither Male nor Female.
C8_PefAbsentIffUnsupported ==
    Done => (pef = None <=> gender \notin {"Male", "Female"})

C8_Witness ==
    /\ Done /\ gender = "Other" /\ pef = None

\* C9: calculate_lln returns a value >= 0: adjustment_factor * (parameter -
\* 0.02*age + 0.05*height) when that is positive and 0 otherwise, the factor
\* 0.88 for African American, 0.94 for Asian and 1.0 for any other.
C9_LlnClamped ==
    Done =>
        LET factor == CASE ethnicity = "African American" -> 88
                        [] ethnicity = "Asian" -> 94
                        [] OTHER -> 100
            value == factor * (parameter - 200 * age + 5 * Height)
        IN  /\ lln.present
            /\ lln.val >= 0
            /\ lln.val = IF value > 0 THEN value ELSE 0

C9_Witness ==
    /\ Done /\ ethnicity = "Other"
    /\ parameter - 200 * age + 5 * Height < 0
    /\ lln = Some(0)

\* C10: for age 0..120 and height >= 51 cm the cutoff is above 1, so for
\* every ratio in [0,1] the output starts with the obstructive line and has
\* neither the restrictive line nor "Normal PFT values.".
C10_AlwaysObstructive ==
    (/\ Done
     /\ age \in 0..AgeMax
     /\ Height >= 5100
     /\ fev1_fvc \in 0..1000)
    => /\ Cutoff > 1000000
       /\ Len(results) >= 1
       /\ results[1].msg = ObstructiveMsg
       /\ results[1].args[1] > 100
       /\ ~Has(RestrictiveMsg)
       /\ ~Has(NormalMsg)

C10_Witness ==
    /\ Done /\ age = AgeMax /\ height_inches = 201
    /\ ethnicity = "African American" /\ fev1_fvc = 1000
    /\ results[1].msg = ObstructiveMsg

====
